---- MODULE Spec2Model ----
(***************************************************************************)
(* Scholarship portal: the funding ledger kept by the Donation post-save   *)
(* hook, the donation routes (create, PayPal capture, refund) and the      *)
(* application lifecycle (submit, review, decision, admin status update).  *)
(*                                                                         *)
(* Two granularities are modelled from the same operators:                 *)
(*   - whole handlers as single actions (SpecFunds, SpecApp, SpecAward);   *)
(*   - handlers split at their awaits, several requests in flight          *)
(*     (SpecLedger for donations, SpecSubmit for submissions).             *)
(***************************************************************************)
EXTENDS Integers, Sequences, FiniteSets, TLC

\* ------------------------------------------------------------------ bounds
MaxDonations == 2
MaxDonationCount == 3
MaxRefundCalls == 2
MaxRequests == 2
MaxHistory == 3
MaxConnections == 2

\* ------------------------------------------------------------------ inputs
None == "none"
Scholarships == {"s1"}
Donors == {"d1", "d2"}
SoleDonor == {"d1"}
Students == {"st1", "st2"}
SoleApplicant == {"st1"}
Reviewers == {"r1"}
Admins == {"a1"}
Amounts == {1, 2}
AwardAmounts == {2}
TotalFundsChoices == {3}
ReviewerNotesIn == {""}
AdminNotesIn == {""}

VARIABLES scholarships, donations, ledgerApplied, refundCalls,
          applications, students, reqs, resp,
          conns, clients, sent, wsCall

\* The stored collections.
dbVars == <<scholarships, donations, ledgerApplied, refundCalls,
            applications, students>>

\* WebSocketService: the sockets, the this.clients map, and of the handler
\* or method that ran last: what it sent to each socket (sent), its name, its
\* argument, the socket it ran on and what it returned (wsCall).
wsVars == <<conns, clients, sent, wsCall>>

vars == <<dbVars, reqs, resp, wsVars>>

\* ------------------------------------------------------------------ schemas
\* Scholarship schema: the funding counters with their defaults, on a
\* scholarship an administrator has opened (status 'active').
NewScholarship(amount, totalFunds) ==
  [status |-> "active", amount |-> amount, totalFunds |-> totalFunds,
   fundsRaised |-> 0, amountFunded |-> 0, donorCount |-> 0,
   donationCount |-> 0, donors |-> <<>>, applications |-> <<>>]

\* Donation schema: the fields the ledger and the routes read or write.
NewDonation(donor, sid, amount, paymentMethod, paymentStatus, transactionId) ==
  [donor |-> donor, scholarship |-> sid, amount |-> amount,
   paymentMethod |-> paymentMethod, paymentStatus |-> paymentStatus,
   transactionId |-> transactionId]

\* Transaction ids.  NoTxn: none given.  The gateway's ids are new at every
\* payment: CardTxn(n) for the payment of the n-th stored donation, OrderTxn(n)
\* for its PayPal order, CaptureTxn(n) for the capture of that order.
\* ClientTxnIds: the ids a client may put in the body of POST /add.
NoTxn == 0
CardTxn(n) == n
OrderTxn(n) == 100 + n
CaptureTxn(n) == 200 + n
AddTxn(n) == 400 + n
ClientTxnIds == {301}

PaymentMethodEnum == {"Credit Card", "Debit Card", "UPI", "Net Banking", "Other"}
PaymentStatusEnum ==
  {"pending", "processing", "completed", "failed", "refunded", "cancelled"}

\* Schema validation run by save(): the enum validators of the Donation
\* schema, min of amount, required of transactionId.
DonationValid(doc) ==
  /\ doc.paymentMethod \in PaymentMethodEnum
  /\ doc.paymentStatus \in PaymentStatusEnum
  /\ doc.amount >= 1
  /\ doc.transactionId # NoTxn

\* A request slot: where its handler stands, the document it holds in memory
\* (<<>> before it is built), that document's id once stored, what the
\* handler last read (<<>> before the read), and the session the handler
\* started: "none" when it started none, "open" from startTransaction on,
\* "committed" or "aborted" once the handler has committed or aborted the
\* transaction and ended the session.
IdleReq == [pc |-> "idle", doc |-> <<>>, id |-> 0, read |-> <<>>,
            session |-> "none"]
Requests == 1 .. MaxRequests

\* The last response sent: the route, the HTTP status, the message, and the id
\* in the request's path or body (0 when the route takes none).
NoResp == [op |-> "none", code |-> 0, msg |-> "", id |-> 0]
ReplyTo(op, code, msg, id) == [op |-> op, code |-> code, msg |-> msg, id |-> id]
Reply(op, code, msg) == ReplyTo(op, code, msg, 0)

\* ------------------------------------------------------------------ ledger
\* donationSchema.pre('save'): the scholarship, when given, must be active.
PreSaveOK(schs, doc) ==
  doc.scholarship # None => schs[doc.scholarship].status = "active"

\* post('save'): !scholarship.donors.includes(doc.donor), on the document read
IsNewDonor(sch, donor) ==
  \A i \in 1 .. Len(sch.donors) : sch.donors[i] # donor

\* A lost update: the counters written from the values the hook read.
ApplyDonationStale(cur, read, doc) ==
  LET isNew == IsNewDonor(read, doc.donor) IN
  [cur EXCEPT !.fundsRaised = read.fundsRaised + doc.amount,
              !.amountFunded = read.amountFunded + doc.amount,
              !.donationCount = read.donationCount + 1,
              !.donors = IF isNew THEN Append(@, doc.donor) ELSE @,
              !.donorCount = IF isNew THEN @ + 1 ELSE @]

\* post('save'): Scholarship.updateOne with $inc (and $push for a new donor).
\* cur is the stored scholarship, read the one findById returned earlier.
ApplyDonation(cur, read, doc) ==
  LET isNew == IsNewDonor(read, doc.donor) IN
  [cur EXCEPT !.fundsRaised = @ + doc.amount,
              !.amountFunded = @ + doc.amount,
              !.donationCount = @ + 1,
              !.donors = IF isNew THEN Append(@, doc.donor) ELSE @,
              !.donorCount = IF isNew THEN @ + 1 ELSE @]

\* post('save') guard: doc.paymentStatus === 'completed' && doc.scholarship
HookFires(doc) ==
  doc.paymentStatus = "completed" /\ doc.scholarship # None

\* The whole post-save hook run without interleaving, on in-memory document doc.
PostSave(schs, doc) ==
  IF HookFires(doc)
  THEN [schs EXCEPT ![doc.scholarship] =
          ApplyDonation(@, schs[doc.scholarship], doc)]
  ELSE schs

\* How often the hook has applied a donation to the ledger (history of the run).
PostSaveApplied(doc, applied) ==
  IF HookFires(doc) THEN applied + 1 ELSE applied

\* ------------------------------------------------------------------ websocket service
Connections == 1 .. MaxConnections
Identities == {"st1", "r1"}
Tokens == Identities \cup {""}
Roles == {"student", "reviewer", "admin"}

\* The role of the user behind an identity: st1 is the student of
\* authorize('student'), r1 the reviewer of authorize('reviewer', 'admin').
RoleOf(u) == IF u \in Students THEN "student" ELSE "reviewer"

\* A socket slot with no connection: closed, never pinged.
NoSocket ==
  [readyState |-> "closed", isAlive |-> TRUE, authenticated |-> FALSE,
   userId |-> None, pinged |-> FALSE, destroyed |-> FALSE]

\* wss.on('connection'): the properties set on a new socket.  pinged records a
\* ping sent and not yet answered; destroyed that terminate() tore the socket
\* down, after which the peer's frames no longer arrive.
NewSocket ==
  [readyState |-> "open", isAlive |-> TRUE, authenticated |-> FALSE,
   userId |-> None, pinged |-> FALSE, destroyed |-> FALSE]

\* A message of the service: its type, and for application events the
\* application and the status it reports.
Event(type, aid, status) == [type |-> type, aid |-> aid, status |-> status]

NothingSent == [c \in Connections |-> <<>>]
\* wsCall for a handler or method: op its name, target its identity, role or
\* token argument, on the socket it ran on (0 for none), ok the boolean and
\* count the number it returned (FALSE and 0 when it returns neither).
Call(op, target, on, ok, count) ==
  [op |-> op, target |-> target, on |-> on, ok |-> ok, count |-> count]

NoCall == Call("none", "", 0, FALSE, 0)

\* wss.clients: the sockets whose 'close' event has not been emitted.
InWss(c) == conns[c].readyState \in {"open", "closing"}

\* A socket on which the peer's frames (messages, pongs) still arrive.
Receiving(c) == InWss(c) /\ ~conns[c].destroyed

\* client.readyState === WebSocket.OPEN
IsOpen(c) == conns[c].readyState = "open"

\* client.send(...) on every socket of to.
Deliver(s, to, ev) ==
  [c \in Connections |-> IF c \in to THEN Append(s[c], ev) ELSE s[c]]

\* this.clients.get(u): the socket registered for u, 0 for undefined.
Registered(u) == IF u \in DOMAIN clients THEN clients[u] ELSE 0

\* sendToUser sending with no look at readyState.
SendToUserToAny(u) ==
  IF Registered(u) # 0 THEN {Registered(u)} ELSE {}

\* sendToUser: the socket reached, if any.
SendToUserTo(u) ==
  IF Registered(u) # 0 /\ IsOpen(Registered(u)) THEN {Registered(u)} ELSE {}

\* sendToRole and broadcast: this.clients.forEach over the open sockets; the
\* role is not looked at.
SendToRoleTo(role) ==
  {c \in Connections : IsOpen(c) /\ \E u \in Identities : clients[u] = c}

\* notifyApplicationStatusUpdate: one sendToUser and two sendToRole calls.
NotifySent(aid, studentId, status) ==
  LET message == Event("application_status_update", aid, status)
      adminMessage == Event("application_reviewed", aid, status)
      s1 == Deliver(NothingSent, SendToUserTo(studentId), message)
      s2 == Deliver(s1, SendToRoleTo("reviewer"), adminMessage)
  IN Deliver(s2, SendToRoleTo("admin"), adminMessage)

\* notifyApplicationStatusUpdate returns nothing.
NotifyCall == Call("notifyApplicationStatusUpdate", "", 0, FALSE, 0)

\* ------------------------------------------------------------------ initial state
Init ==
  /\ scholarships \in [Scholarships ->
        {NewScholarship(a, t) : a \in AwardAmounts, t \in TotalFundsChoices}]
  /\ donations = <<>>
  /\ ledgerApplied = <<>>
  /\ refundCalls = 0
  /\ applications = <<>>
  /\ students = [st \in Students |-> [applications |-> <<>>]]
  /\ reqs = [r \in 1 .. MaxRequests |-> IdleReq]
  /\ resp = NoResp
  /\ conns = [c \in Connections |-> NoSocket]
  /\ clients = [u \in Identities |-> 0]
  /\ sent = NothingSent
  /\ wsCall = NoCall

DonationIds == 1 .. Len(donations)

\* ------------------------------------------------------------------ donation routes
\* POST /api/donations, the whole handler.
Donate(donor, sid, amt, method, payOK) ==
  /\ Len(donations) < MaxDonations
  /\ UNCHANGED <<wsVars, refundCalls, applications, students, reqs>>
  /\ LET n == Len(donations) + 1
         doc == IF method = "PayPal"
                THEN NewDonation(donor, sid, amt, method, "pending", OrderTxn(n))
                ELSE NewDonation(donor, sid, amt, method, "completed", CardTxn(n))
     IN
     IF sid # None /\ scholarships[sid].status # "active"
     THEN /\ resp' = Reply("donate", 400, "not accepting donations")
          /\ UNCHANGED <<scholarships, donations, ledgerApplied>>
     ELSE IF ~payOK
     THEN /\ resp' = Reply("donate", 400, "Payment processing failed")
          /\ UNCHANGED <<scholarships, donations, ledgerApplied>>
     ELSE IF ~DonationValid(doc) \/ ~PreSaveOK(scholarships, doc)
     THEN /\ resp' = Reply("donate", 400, "Donation failed")
          /\ UNCHANGED <<scholarships, donations, ledgerApplied>>
     ELSE /\ donations' = Append(donations, doc)
          /\ scholarships' = PostSave(scholarships, doc)
          /\ ledgerApplied' = Append(ledgerApplied, PostSaveApplied(doc, 0))
          /\ resp' = IF method = "PayPal"
                     THEN Reply("donate", 200, "requiresAction")
                     ELSE Reply("donate", 201, "Donation successful")

\* POST /api/donations/add, the whole handler.  amt = 0 or method = "": the
\* field is missing; txn = NoTxn: the body has no transactionId and the
\* handler makes one.
DonateAdd(donor, sid, amt, method, txn) ==
  /\ Len(donations) < MaxDonations
  /\ UNCHANGED <<wsVars, refundCalls, applications, students, reqs>>
  /\ LET doc == NewDonation(donor, sid, amt, method, "completed",
                            IF txn # NoTxn THEN txn
                            ELSE AddTxn(Len(donations) + 1))
     IN
     IF amt = 0 \/ method = ""
     THEN /\ resp' = Reply("add", 400, "Please provide amount and paymentMethod")
          /\ UNCHANGED <<scholarships, donations, ledgerApplied>>
     ELSE IF ~DonationValid(doc) \/ ~PreSaveOK(scholarships, doc)
     THEN /\ resp' = Reply("add", 400, "Donation failed")
          /\ UNCHANGED <<scholarships, donations, ledgerApplied>>
     ELSE /\ donations' = Append(donations, doc)
          /\ scholarships' = PostSave(scholarships, doc)
          /\ ledgerApplied' = Append(ledgerApplied, PostSaveApplied(doc, 0))
          /\ resp' = Reply("add", 201, "Donation successful")

\* POST /api/donations/paypal/capture, the whole handler.  did = 0: no
\* donationId in the body, or no such donation.
Capture(hasOrder, captureOK, did) ==
  /\ UNCHANGED <<wsVars, refundCalls, applications, students, reqs>>
  /\ IF ~hasOrder
     THEN /\ resp' = ReplyTo("capture", 400, "PayPal order ID is required", did)
          /\ UNCHANGED <<scholarships, donations, ledgerApplied>>
     ELSE IF ~captureOK
     THEN /\ resp' = ReplyTo("capture", 400, "Failed to capture PayPal payment", did)
          /\ UNCHANGED <<scholarships, donations, ledgerApplied>>
     ELSE IF did \notin DonationIds
     THEN /\ resp' = ReplyTo("capture", 200, "captured, no donation", did)
          /\ UNCHANGED <<scholarships, donations, ledgerApplied>>
     ELSE LET doc == [donations[did] EXCEPT !.paymentStatus = "completed",
                                            !.transactionId = CaptureTxn(did)] IN
          /\ doc.scholarship # None =>
               scholarships[doc.scholarship].donationCount < MaxDonationCount
          /\ IF ~PreSaveOK(scholarships, doc)
             THEN /\ resp' = ReplyTo("capture", 400, "Failed to capture payment", did)
                  /\ UNCHANGED <<scholarships, donations, ledgerApplied>>
             ELSE /\ donations' = [donations EXCEPT ![did] = doc]
                  /\ scholarships' = PostSave(scholarships, doc)
                  /\ ledgerApplied' =
                       [ledgerApplied EXCEPT ![did] = PostSaveApplied(doc, @)]
                  /\ resp' = ReplyTo("capture", 200, "Payment captured", did)

\* A refund that skips the status checks.
RefundableAny(doc) == TRUE

\* POST /:id/refund guards: not 'refunded', and 'completed'.
Refundable(doc) ==
  doc.paymentStatus # "refunded" /\ doc.paymentStatus = "completed"

\* PaymentService.refundPayment: the demo branch (every non-PayPal method)
\* always succeeds; the PayPal branch succeeds or fails with the gateway.
RefundPayment(doc, gatewayOK) ==
  IF doc.paymentMethod = "PayPal" THEN gatewayOK ELSE TRUE

\* POST /api/donations/:id/refund, the whole handler.
Refund(did, gatewayOK) ==
  /\ UNCHANGED <<wsVars, scholarships, ledgerApplied, applications, students,
                 reqs>>
  /\ IF did \notin DonationIds
     THEN /\ resp' = ReplyTo("refund", 404, "Donation not found", did)
          /\ UNCHANGED <<donations, refundCalls>>
     ELSE IF ~Refundable(donations[did])
     THEN /\ resp' = ReplyTo("refund", 400,
                       IF donations[did].paymentStatus = "refunded"
                       THEN "Donation already refunded"
                       ELSE "Only completed donations can be refunded", did)
          /\ UNCHANGED <<donations, refundCalls>>
     ELSE LET doc == [donations[did] EXCEPT !.paymentStatus = "refunded"] IN
          /\ refundCalls < MaxRefundCalls
          /\ refundCalls' = refundCalls + 1
          /\ IF ~RefundPayment(donations[did], gatewayOK)
             THEN /\ resp' = ReplyTo("refund", 400, "Refund processing failed", did)
                  /\ UNCHANGED donations
             ELSE IF ~PreSaveOK(scholarships, doc)
             THEN /\ resp' = ReplyTo("refund", 400, "Refund failed", did)
                  /\ UNCHANGED donations
             ELSE /\ donations' = [donations EXCEPT ![did] = doc]
                  /\ resp' = ReplyTo("refund", 200, "Donation refunded", did)

\* PUT /api/scholarships/:id with a status in the body.
SetScholarshipStatus(sid, st) ==
  /\ scholarships[sid].status # st
  /\ scholarships' = [scholarships EXCEPT ![sid].status = st]
  /\ resp' = Reply("updateScholarship", 200, st)
  /\ UNCHANGED <<wsVars, donations, ledgerApplied, refundCalls, applications,
                 students, reqs>>

\* One donor, every donation operation.
NextFunds ==
  \/ \E d \in SoleDonor, s \in Scholarships \cup {None}, a \in Amounts,
        m \in {"Credit Card", "PayPal"}, ok \in BOOLEAN : Donate(d, s, a, m, ok)
  \/ \E o \in BOOLEAN, ok \in BOOLEAN, d \in 0 .. MaxDonations : Capture(o, ok, d)
  \/ \E d \in 0 .. MaxDonations, ok \in BOOLEAN : Refund(d, ok)
  \/ \E s \in Scholarships, st \in {"active", "inactive"} :
        SetScholarshipStatus(s, st)

SpecFunds == Init /\ [][NextFunds]_vars

\* One donor using POST /add, with and without a transaction id of their own.
NextAdd ==
  \/ \E d \in SoleDonor, s \in Scholarships \cup {None}, a \in {0} \cup Amounts,
        m \in {"Credit Card", "PayPal", ""}, t \in ClientTxnIds \cup {NoTxn} :
        DonateAdd(d, s, a, m, t)
  \/ \E d \in 0 .. MaxDonations, ok \in BOOLEAN : Refund(d, ok)
  \/ \E s \in Scholarships, st \in {"active", "inactive"} :
        SetScholarshipStatus(s, st)

SpecAdd == Init /\ [][NextAdd]_vars

\* ------------------------------------------------------------------ applications
ApplicationIds == 1 .. Len(applications)

StatusEnum ==
  {"pending", "submitted", "under_review", "approved", "rejected", "shortlisted"}

\* JavaScript a || b on ids and strings: undefined and '' are falsy.
OrElse(a, b) == IF a \in {None, ""} THEN b ELSE a

\* new Application({...}) as POST /api/applications builds it.
NewApplication(st, sid) ==
  [student |-> st, scholarship |-> sid, status |-> "submitted",
   statusHistory |-> <<>>, reviewedBy |-> None, decidedBy |-> None,
   reviewerNotes |-> "", adminNotes |-> ""]

\* applicationSchema.pre('save'): the entry pushed when status is modified.
HistoryEntry(doc) ==
  [status |-> doc.status,
   changedBy |-> OrElse(doc.reviewedBy, OrElse(doc.decidedBy, doc.student)),
   notes |-> OrElse(doc.reviewerNotes, OrElse(doc.adminNotes, "Status updated"))]

\* applicationSchema.pre('save') on in-memory document doc whose statusHistory
\* is hist: this.statusHistory = this.statusHistory || []; push on a modified
\* status.  The result is what save() then stores.
PreSaveApplication(doc, hist, statusModified) ==
  IF statusModified
  THEN [doc EXCEPT !.statusHistory = Append(hist, HistoryEntry(doc))]
  ELSE doc

\* statusHistory is declared select: false, so a findById without
\* select('+statusHistory') loads the document without it.
LoadedHistory(app, selected) ==
  IF selected THEN app.statusHistory ELSE <<>>

\* The check left out: every submission looks new.
ExistingApplicationNever(apps, st, sid) == FALSE

\* Application.findOne({student, scholarship}) of POST /api/applications.
ExistingApplication(apps, st, sid) ==
  \E i \in 1 .. Len(apps) : apps[i].student = st /\ apps[i].scholarship = sid

\* POST /api/applications as one committed transaction.
Submit(st, sid, hasFields) ==
  /\ UNCHANGED <<wsVars, donations, ledgerApplied, refundCalls, reqs>>
  /\ IF ~hasFields
     THEN /\ resp' = Reply("submit", 400, "Please provide scholarshipId and essay")
          /\ UNCHANGED <<scholarships, applications, students>>
     ELSE IF scholarships[sid].status # "active"
     THEN /\ resp' = Reply("submit", 400, "Scholarship not found, inactive")
          /\ UNCHANGED <<scholarships, applications, students>>
     ELSE IF ExistingApplication(applications, st, sid)
     THEN /\ resp' = Reply("submit", 400, "You have already applied")
          /\ UNCHANGED <<scholarships, applications, students>>
     ELSE LET doc == PreSaveApplication(NewApplication(st, sid), <<>>, TRUE)
              id == Len(applications) + 1
          IN
          /\ applications' = Append(applications, doc)
          /\ students' = [students EXCEPT ![st].applications = Append(@, id)]
          /\ scholarships' =
               [scholarships EXCEPT ![sid].applications = Append(@, id)]
          /\ resp' = Reply("submit", 201, "Application submitted")

ReviewStatuses == {"shortlisted", "approved", "rejected", "under_review"}
NoRevertStatuses == {"approved", "rejected"}

\* PUT /:id/review: noRevertStatuses.includes(application.status)
ReviewLocked(app) == app.status \in NoRevertStatuses

\* PUT /:id/review: the request passes every check before the update.
ReviewAccepted(aid, status) ==
  /\ status \in ReviewStatuses
  /\ aid \in ApplicationIds
  /\ scholarships[applications[aid].scholarship].status = "active"
  /\ ~ReviewLocked(applications[aid])

\* PUT /api/applications/:id/review as one committed transaction.
Review(aid, status, reviewer, notes) ==
  /\ UNCHANGED <<conns, clients, scholarships, donations, ledgerApplied,
                 refundCalls, students, reqs>>
  /\ IF ReviewAccepted(aid, status)
     THEN /\ sent' = NotifySent(aid, applications[aid].student, status)
          /\ wsCall' = NotifyCall
     ELSE UNCHANGED <<sent, wsCall>>
  /\ IF status \notin ReviewStatuses
     THEN /\ resp' = ReplyTo("review", 400, "Invalid status", aid)
          /\ UNCHANGED applications
     ELSE IF aid \notin ApplicationIds
     THEN /\ resp' = ReplyTo("review", 404, "Application not found", aid)
          /\ UNCHANGED applications
     ELSE IF scholarships[applications[aid].scholarship].status # "active"
     THEN /\ resp' = ReplyTo("review", 400, "Scholarship is no longer active", aid)
          /\ UNCHANGED applications
     ELSE IF ReviewLocked(applications[aid])
     THEN /\ resp' = ReplyTo("review", 400, "already decided", aid)
          /\ UNCHANGED applications
     ELSE /\ Len(applications[aid].statusHistory) < MaxHistory
          /\ applications' = [applications EXCEPT ![aid] =
               [@ EXCEPT !.status = status,
                         !.reviewedBy = reviewer,
                         !.reviewerNotes = IF notes # "" THEN notes ELSE @,
                         !.statusHistory = Append(@,
                            [status |-> status, changedBy |-> reviewer,
                             notes |-> notes])]]
          /\ resp' = ReplyTo("review", 200, status, aid)

\* A guard that forgets the award about to be committed.
FundsGuardFailsLoose(sch) == sch.fundsRaised > sch.totalFunds

\* PUT /:id/decision: scholarship.fundsRaised + scholarship.amount > totalFunds
FundsGuardFails(sch) == sch.fundsRaised + sch.amount > sch.totalFunds

\* PUT /api/applications/:id/decision, the whole handler.
Decision(aid, decision, admin, notes) ==
  /\ UNCHANGED <<wsVars, donations, ledgerApplied, refundCalls, students, reqs>>
  /\ IF decision \notin {"approved", "rejected"}
     THEN /\ resp' = ReplyTo("decision", 400, "Please provide a valid decision", aid)
          /\ UNCHANGED <<scholarships, applications>>
     ELSE IF aid \notin ApplicationIds
     THEN /\ resp' = ReplyTo("decision", 404, "Application not found", aid)
          /\ UNCHANGED <<scholarships, applications>>
     ELSE LET app == applications[aid]
              sid == app.scholarship
              sch == scholarships[sid]
              doc == [app EXCEPT !.status = decision,
                                 !.adminNotes = OrElse(notes, @),
                                 !.decidedBy = admin]
              saved == PreSaveApplication(doc, LoadedHistory(app, FALSE),
                                          doc.status # app.status)
          IN
          IF decision = "approved" /\ FundsGuardFails(sch)
          THEN /\ resp' = ReplyTo("decision", 400, "Insufficient funds", aid)
               /\ UNCHANGED <<scholarships, applications>>
          ELSE /\ scholarships' =
                    IF decision = "approved"
                    THEN [scholarships EXCEPT
                            ![sid].fundsRaised = sch.fundsRaised + sch.amount]
                    ELSE scholarships
               /\ applications' = [applications EXCEPT ![aid] =
                    IF doc.status # app.status
                    THEN saved
                    ELSE [doc EXCEPT !.statusHistory = app.statusHistory]]
               /\ resp' = ReplyTo("decision", 200, decision, aid)

\* updateApplicationStatus (applicationController): findByIdAndUpdate of the
\* status; the finalDecision.* paths are not in the schema, update validators
\* are off, and no save middleware runs.
UpdateApplicationStatus(aid, status) ==
  /\ UNCHANGED <<wsVars, scholarships, donations, ledgerApplied, refundCalls,
                 students, reqs>>
  /\ IF aid \notin ApplicationIds
     THEN /\ resp' = ReplyTo("updateStatus", 404, "Application not found", aid)
          /\ UNCHANGED applications
     ELSE /\ applications' = [applications EXCEPT ![aid].status = status]
          /\ resp' = ReplyTo("updateStatus", 200, status, aid)

\* One applicant, every application operation.
NextApp ==
  \/ \E st \in SoleApplicant, s \in Scholarships, f \in BOOLEAN : Submit(st, s, f)
  \/ \E a \in 0 .. 1, st \in ReviewStatuses \cup {"pending"},
        r \in Reviewers, n \in ReviewerNotesIn : Review(a, st, r, n)
  \/ \E a \in 0 .. 1, d \in {"approved", "rejected", ""},
        ad \in Admins, n \in AdminNotesIn : Decision(a, d, ad, n)
  \/ \E a \in 0 .. 1, st \in {"under_review", "approved"} :
        UpdateApplicationStatus(a, st)
  \/ \E s \in Scholarships, st \in {"active", "inactive"} :
        SetScholarshipStatus(s, st)

SpecApp == Init /\ [][NextApp]_vars

\* Several applicants of one scholarship, reviewed and decided.
NextAward ==
  \/ \E st \in Students, s \in Scholarships : Submit(st, s, TRUE)
  \/ \E a \in 1 .. Cardinality(Students), st \in ReviewStatuses,
        r \in Reviewers, n \in ReviewerNotesIn : Review(a, st, r, n)
  \/ \E a \in 1 .. Cardinality(Students), d \in {"approved", "rejected"},
        ad \in Admins, n \in AdminNotesIn : Decision(a, d, ad, n)

SpecAward == Init /\ [][NextAward]_vars

\* ------------------------------------------------------------------ requests in flight
Quiescent == \A r \in Requests : reqs[r].pc \in {"idle", "done", "aborted"}

\* POST /api/donations up to the save: validation, the scholarship lookup and
\* the payment service.
DonateBegin(r, donor, sid, amt) ==
  /\ reqs[r].pc = "idle"
  /\ UNCHANGED <<wsVars, scholarships, donations, ledgerApplied, refundCalls,
                 applications, students>>
  /\ LET doc == NewDonation(donor, sid, amt, "Credit Card", "completed", NoTxn) IN
     IF sid # None /\ scholarships[sid].status # "active"
     THEN /\ reqs' = [reqs EXCEPT ![r] = [@ EXCEPT !.pc = "done", !.doc = <<doc>>]]
          /\ resp' = Reply("donate", 400, "not accepting donations")
     ELSE /\ reqs' = [reqs EXCEPT ![r] = [@ EXCEPT !.pc = "paid", !.doc = <<doc>>]]
          /\ UNCHANGED resp

\* donation.save(): validation, pre('save'), then the insert.  The gateway's
\* transaction id, which nothing sees before the insert, is put in here.
DonateSave(r) ==
  /\ reqs[r].pc = "paid"
  /\ UNCHANGED <<wsVars, scholarships, refundCalls, applications, students>>
  /\ LET doc == [reqs[r].doc[1] EXCEPT
                  !.transactionId = CardTxn(Len(donations) + 1)] IN
     IF ~DonationValid(doc) \/ ~PreSaveOK(scholarships, doc)
     THEN /\ reqs' = [reqs EXCEPT ![r].pc = "done"]
          /\ resp' = Reply("donate", 400, "Donation failed")
          /\ UNCHANGED <<donations, ledgerApplied>>
     ELSE /\ donations' = Append(donations, doc)
          /\ ledgerApplied' = Append(ledgerApplied, 0)
          /\ IF HookFires(doc)
             THEN /\ reqs' = [reqs EXCEPT ![r] =
                       [@ EXCEPT !.pc = "saved", !.id = Len(donations) + 1]]
                  /\ UNCHANGED resp
             ELSE /\ reqs' = [reqs EXCEPT ![r] =
                       [@ EXCEPT !.pc = "done", !.id = Len(donations) + 1]]
                  /\ resp' = Reply("donate", 201, "Donation successful")

\* post('save'): const scholarship = await Scholarship.findById(doc.scholarship)
HookRead(r) ==
  /\ reqs[r].pc = "saved"
  /\ reqs' = [reqs EXCEPT ![r] =
       [@ EXCEPT !.pc = "read", !.read = <<scholarships[reqs[r].doc[1].scholarship]>>]]
  /\ UNCHANGED <<wsVars, scholarships, donations, ledgerApplied, refundCalls,
                 applications, students, resp>>

\* post('save'): await Scholarship.updateOne(...), then the 201 response.
HookUpdate(r) ==
  /\ reqs[r].pc = "read"
  /\ LET doc == reqs[r].doc[1] IN
     /\ scholarships' = [scholarships EXCEPT ![doc.scholarship] =
                           ApplyDonation(@, reqs[r].read[1], doc)]
     /\ ledgerApplied' = [ledgerApplied EXCEPT ![reqs[r].id] = @ + 1]
  /\ reqs' = [reqs EXCEPT ![r].pc = "done"]
  /\ resp' = Reply("donate", 201, "Donation successful")
  /\ UNCHANGED <<wsVars, donations, refundCalls, applications, students>>

NextLedger ==
  \/ \E r \in Requests, d \in Donors, s \in Scholarships \cup {None},
        a \in Amounts : DonateBegin(r, d, s, a)
  \/ \E r \in Requests : DonateSave(r)
  \/ \E r \in Requests : HookRead(r)
  \/ \E r \in Requests : HookUpdate(r)

SpecLedger == Init /\ [][NextLedger]_vars

\* applicationSchema.index({student: 1, scholarship: 1}, {unique: true}):
\* whether the insert of a (student, scholarship) application is accepted.
UniqueIndexOK(apps, st, sid) ==
  \A i \in 1 .. Len(apps) : ~(apps[i].student = st /\ apps[i].scholarship = sid)

\* The transaction's snapshot: a document it writes must not have been written
\* by anyone else since the transaction read it.
WriteConflict(read, st, sid) ==
  students[st] # read.student \/ scholarships[sid] # read.scholarship

\* Notification blocks whose errors reach the handler's catch.
NotifyOutcomeStrict(emailOK, wsOK) ==
  IF emailOK /\ wsOK THEN "continue" ELSE "abort"

\* The email block and the WebSocket block of a handler, each inside its own
\* try/catch that logs the error: the handler goes on whatever happened.
NotifyOutcome(emailOK, wsOK) == "continue"

\* POST /api/applications: startTransaction and the reads of the transaction.
SubmitBegin(r, st, sid, hasFields) ==
  /\ reqs[r].pc = "idle"
  /\ UNCHANGED <<wsVars, scholarships, donations, ledgerApplied, refundCalls,
                 applications, students>>
  /\ LET doc == NewApplication(st, sid)
         done(code, msg, session) ==
           /\ reqs' = [reqs EXCEPT ![r] =
                [@ EXCEPT !.pc = "done", !.doc = <<doc>>, !.session = session]]
           /\ resp' = Reply("submit", code, msg)
     IN
     IF ~hasFields
     THEN done(400, "Please provide scholarshipId and essay", "open")
     ELSE IF scholarships[sid].status # "active"
     THEN done(400, "Scholarship not found, inactive", "aborted")
     ELSE IF ExistingApplication(applications, st, sid)
     THEN done(400, "You have already applied", "aborted")
     ELSE /\ reqs' = [reqs EXCEPT ![r] =
               [@ EXCEPT !.pc = "checked", !.doc = <<doc>>,
                         !.read = <<[student |-> students[st],
                                     scholarship |-> scholarships[sid]]>>,
                         !.session = "open"]]
          /\ UNCHANGED resp

\* POST /api/applications: the three saves, the two notification blocks and
\* commitTransaction; any error aborts the transaction and answers 500.  Both
\* notification blocks read populatedApp, a const declared further down the
\* same block, so each throws a ReferenceError before it sends anything.
SubmitCommit(r) ==
  /\ reqs[r].pc = "checked"
  /\ UNCHANGED <<wsVars, donations, ledgerApplied, refundCalls>>
  /\ LET st == reqs[r].doc[1].student
         sid == reqs[r].doc[1].scholarship
         id == Len(applications) + 1
     IN
     IF \/ ~UniqueIndexOK(applications, st, sid)
        \/ WriteConflict(reqs[r].read[1], st, sid)
        \/ NotifyOutcome(FALSE, FALSE) # "continue"
     THEN /\ reqs' = [reqs EXCEPT ![r] =
               [@ EXCEPT !.pc = "done", !.session = "aborted"]]
          /\ resp' = Reply("submit", 500, "Server error")
          /\ UNCHANGED <<scholarships, applications, students>>
     ELSE /\ applications' =
               Append(applications, PreSaveApplication(reqs[r].doc[1], <<>>, TRUE))
          /\ students' = [students EXCEPT ![st].applications = Append(@, id)]
          /\ scholarships' =
               [scholarships EXCEPT ![sid].applications = Append(@, id)]
          /\ reqs' = [reqs EXCEPT ![r] =
               [@ EXCEPT !.pc = "done", !.id = id, !.session = "committed"]]
          /\ resp' = Reply("submit", 201, "Application submitted")

\* Writes left in place when write failAt of a handler fails and nothing
\* rolls the earlier ones back.
CommittedWritesNoRollback(failAt) == 1 .. (failAt - 1)

\* session.abortTransaction() in the catch block: of the writes made in the
\* transaction (1 application, 2 student, 3 scholarship) none is kept when
\* write failAt throws.
CommittedWrites(failAt) == {}

\* POST /api/applications when one of its saves throws: catch, abort, 500.
SubmitAbort(r, failAt) ==
  /\ reqs[r].pc = "checked"
  /\ UNCHANGED <<wsVars, donations, ledgerApplied, refundCalls>>
  /\ LET st == reqs[r].doc[1].student
         sid == reqs[r].doc[1].scholarship
         id == Len(applications) + 1
         kept == CommittedWrites(failAt)
     IN
     /\ applications' =
          IF 1 \in kept
          THEN Append(applications, PreSaveApplication(reqs[r].doc[1], <<>>, TRUE))
          ELSE applications
     /\ students' =
          IF 2 \in kept
          THEN [students EXCEPT ![st].applications = Append(@, id)]
          ELSE students
     /\ scholarships' =
          IF 3 \in kept
          THEN [scholarships EXCEPT ![sid].applications = Append(@, id)]
          ELSE scholarships
  /\ reqs' = [reqs EXCEPT ![r] = [@ EXCEPT !.pc = "aborted", !.session = "aborted"]]
  /\ resp' = Reply("submit", 500, "Server error")

\* applicationSchema.status enum validator, run by save().
ApplicationValid(doc) == doc.status \in StatusEnum

\* submitApplication (applicationController), the whole handler: the document
\* is built with status 'Submitted', which the enum refuses, so save() throws
\* before anything is written.
SubmitApplication(st, sid) ==
  /\ UNCHANGED <<wsVars, donations, ledgerApplied, refundCalls, reqs>>
  /\ LET doc == [NewApplication(st, sid) EXCEPT !.status = "Submitted"]
         id == Len(applications) + 1
     IN
     IF ExistingApplication(applications, st, sid)
     THEN /\ resp' = Reply("submitApplication", 400, "You have already applied")
          /\ UNCHANGED <<scholarships, applications, students>>
     ELSE IF ~ApplicationValid(doc)
     THEN /\ resp' = Reply("submitApplication", 500, "Error submitting application")
          /\ UNCHANGED <<scholarships, applications, students>>
     ELSE /\ applications' =
               Append(applications, PreSaveApplication(doc, <<>>, TRUE))
          /\ students' = [students EXCEPT ![st].applications = Append(@, id)]
          /\ scholarships' =
               [scholarships EXCEPT ![sid].applications = Append(@, id)]
          /\ resp' = Reply("submitApplication", 201, "Application submitted")

\* The client's next request on a connection whose last one was answered.
Recycle(r) ==
  /\ reqs[r].pc \in {"done", "aborted"}
  /\ reqs' = [reqs EXCEPT ![r] = IdleReq]
  /\ UNCHANGED <<wsVars, scholarships, donations, ledgerApplied, refundCalls,
                 applications, students, resp>>

NextSubmit ==
  \/ \E r \in Requests, st \in Students, s \in Scholarships, f \in BOOLEAN :
        SubmitBegin(r, st, s, f)
  \/ \E r \in Requests : SubmitCommit(r)
  \/ \E r \in Requests, f \in 1 .. 3 : SubmitAbort(r, f)
  \/ \E st \in Students, s \in Scholarships : SubmitApplication(st, s)
  \/ \E r \in Requests : Recycle(r)
  \/ \E s \in Scholarships, st \in {"active", "inactive"} :
        SetScholarshipStatus(s, st)

SpecSubmit == Init /\ [][NextSubmit]_vars

\* ------------------------------------------------------------------ websocket handlers
\* wss.on('connection'): a new socket takes a free slot.
Connect(c) ==
  /\ conns[c].readyState = "closed"
  /\ conns' = [conns EXCEPT ![c] = NewSocket]
  /\ wsCall' = Call("connection", "", c, FALSE, 0)
  /\ sent' = NothingSent
  /\ UNCHANGED <<dbVars, reqs, resp, clients>>

\* ws.send(...) in a handler: the frame leaves only on an open socket.
SendOn(c, ev) ==
  IF IsOpen(c) THEN [NothingSent EXCEPT ![c] = <<ev>>] ELSE NothingSent

\* authenticateClient with the already-authenticated check left out.
AlreadyAuthenticatedNever(c) == FALSE

\* authenticateClient: if (ws.authenticated)
AlreadyAuthenticated(c) == conns[c].authenticated

\* authenticateClient with the eviction left out.
EvictsNever(u) == FALSE

\* authenticateClient: existingConnection && existingConnection.readyState
\* === WebSocket.OPEN
Evicts(u) == clients[u] # 0 /\ IsOpen(clients[u])

\* ws.on('message') with type 'authenticate': authenticateClient(ws, token).
Authenticate(c, token) ==
  /\ Receiving(c)
  /\ wsCall' = Call("authenticate", token, c, FALSE, 0)
  /\ UNCHANGED <<dbVars, reqs, resp>>
  /\ IF AlreadyAuthenticated(c)
     THEN /\ sent' = SendOn(c, Event("error", 0, "Already authenticated"))
          /\ UNCHANGED <<conns, clients>>
     ELSE IF token = ""
     THEN /\ sent' = SendOn(c, Event("error", 0, "Invalid authentication token"))
          /\ UNCHANGED <<conns, clients>>
     ELSE /\ conns' =
               [k \in Connections |->
                  IF k = c
                  THEN [conns[k] EXCEPT !.userId = token, !.authenticated = TRUE]
                  ELSE IF Evicts(token) /\ k = clients[token]
                  THEN [conns[k] EXCEPT !.readyState = "closing"]
                  ELSE conns[k]]
          /\ clients' = [clients EXCEPT ![token] = c]
          /\ sent' = SendOn(c, Event("authenticated", 0, "Successfully authenticated"))

\* ws.on('pong'): the answer to a ping.
Pong(c) ==
  /\ Receiving(c)
  /\ conns[c].pinged
  /\ conns' = [conns EXCEPT ![c] = [@ EXCEPT !.isAlive = TRUE, !.pinged = FALSE]]
  /\ wsCall' = Call("pong", "", c, FALSE, 0)
  /\ sent' = NothingSent
  /\ UNCHANGED <<dbVars, reqs, resp, clients>>

\* A heartbeat that never gives a socket up.
HeartbeatDeadNever(ws) == FALSE

\* The heartbeat's test: ws.isAlive === false
HeartbeatDead(ws) == ws.isAlive = FALSE

\* One run of the setInterval callback over wss.clients: terminate the sockets
\* that did not answer, mark and ping the others.
Heartbeat ==
  /\ \E c \in Connections : InWss(c)
  /\ conns' =
       [c \in Connections |->
          IF ~InWss(c) THEN conns[c]
          ELSE IF HeartbeatDead(conns[c])
          THEN [conns[c] EXCEPT !.readyState = "closing", !.destroyed = TRUE]
          ELSE [conns[c] EXCEPT !.isAlive = FALSE,
                                !.pinged = IF IsOpen(c) THEN TRUE ELSE @]]
  /\ wsCall' = Call("heartbeat", "", 0, FALSE, 0)
  /\ sent' = NothingSent
  /\ UNCHANGED <<dbVars, reqs, resp, clients>>

\* ws.on('close'): the socket leaves wss.clients; if (ws.userId)
\* this.clients.delete(ws.userId).
CloseEvent(c) ==
  /\ InWss(c)
  /\ conns' = [conns EXCEPT ![c].readyState = "closed"]
  /\ clients' = IF conns[c].userId # None
                THEN [clients EXCEPT ![conns[c].userId] = 0]
                ELSE clients
  /\ wsCall' = Call("close", "", c, FALSE, 0)
  /\ sent' = NothingSent
  /\ UNCHANGED <<dbVars, reqs, resp>>

\* A call of sendToUser(userId, message).
CallSendToUser(u, ev) ==
  /\ sent' = Deliver(NothingSent, SendToUserTo(u), ev)
  /\ wsCall' = Call("sendToUser", u, 0, SendToUserTo(u) # {}, 0)
  /\ UNCHANGED <<dbVars, reqs, resp, conns, clients>>

\* A call of sendToRole(role, message).
CallSendToRole(role, ev) ==
  /\ sent' = Deliver(NothingSent, SendToRoleTo(role), ev)
  /\ wsCall' = Call("sendToRole", role, 0, FALSE,
                    Cardinality(SendToRoleTo(role)))
  /\ UNCHANGED <<dbVars, reqs, resp, conns, clients>>

\* A call of broadcast(message): the same loop as sendToRole.
CallBroadcast(ev) ==
  /\ sent' = Deliver(NothingSent, SendToRoleTo(""), ev)
  /\ wsCall' = Call("broadcast", "", 0, FALSE, Cardinality(SendToRoleTo("")))
  /\ UNCHANGED <<dbVars, reqs, resp, conns, clients>>

\* A call of notifyApplicationStatusUpdate(application, studentId, newStatus).
CallNotifyStatus(aid, studentId, status) ==
  /\ sent' = NotifySent(aid, studentId, status)
  /\ wsCall' = NotifyCall
  /\ UNCHANGED <<dbVars, reqs, resp, conns, clients>>

\* The life of the connections: connect, authenticate, heartbeat, close.
NextWs ==
  \/ \E c \in Connections : Connect(c)
  \/ \E c \in Connections, t \in Tokens : Authenticate(c, t)
  \/ \E c \in Connections : Pong(c)
  \/ Heartbeat
  \/ \E c \in Connections : CloseEvent(c)

SpecWs == Init /\ [][NextWs]_vars

\* The fan-out calls over connections that come, authenticate, stay silent
\* under the heartbeat and go.
NextFanout ==
  \/ \E c \in Connections : Connect(c)
  \/ \E c \in Connections, t \in Tokens : Authenticate(c, t)
  \/ Heartbeat
  \/ \E c \in Connections : CloseEvent(c)
  \/ \E u \in Identities :
        CallSendToUser(u, Event("application_status_update", 1, "approved"))
  \/ \E role \in Roles : CallSendToRole(role, Event("new_scholarship", 0, ""))
  \/ CallBroadcast(Event("scholarship_updated", 0, ""))
  \/ \E u \in Identities : CallNotifyStatus(1, u, "approved")

SpecFanout == Init /\ [][NextFanout]_vars

ReviewerSockets == {1}
ReviewerTokens == {"r1"}

\* Submissions in flight while a reviewer's socket connects, authenticates and
\* closes.
NextNotify ==
  \/ \E r \in Requests, st \in SoleApplicant, sid \in Scholarships :
        SubmitBegin(r, st, sid, TRUE)
  \/ \E r \in Requests : SubmitCommit(r)
  \/ \E r \in Requests : Recycle(r)
  \/ \E c \in ReviewerSockets : Connect(c)
  \/ \E c \in ReviewerSockets, t \in ReviewerTokens : Authenticate(c, t)
  \/ \E c \in ReviewerSockets : CloseEvent(c)

SpecNotify == Init /\ [][NextNotify]_vars

\* ------------------------------------------------------------------ decision, await by await
\* PUT /:id/decision up to `await Application.findById`: the body's check and
\* the load (statusHistory is not selected).  The assignments the handler makes
\* to the loaded document later are already made on the slot's copy.
DecideBegin(r, aid, decision, admin, notes) ==
  /\ reqs[r].pc = "idle"
  /\ UNCHANGED <<wsVars, dbVars>>
  /\ IF decision \notin {"approved", "rejected"}
     THEN /\ reqs' = [reqs EXCEPT ![r].pc = "done"]
          /\ resp' = ReplyTo("decision", 400, "Please provide a valid decision", aid)
     ELSE IF aid \notin ApplicationIds
     THEN /\ reqs' = [reqs EXCEPT ![r].pc = "done"]
          /\ resp' = ReplyTo("decision", 404, "Application not found", aid)
     ELSE LET app == applications[aid]
              doc == [app EXCEPT !.status = decision,
                                 !.adminNotes = OrElse(notes, @),
                                 !.decidedBy = admin,
                                 !.statusHistory = LoadedHistory(app, FALSE)]
          IN
          /\ reqs' = [reqs EXCEPT ![r] =
               [pc |-> IF decision = "approved" THEN "loaded" ELSE "funded",
                doc |-> <<doc>>, id |-> aid, read |-> <<app>>,
                session |-> "none"]]
          /\ UNCHANGED resp

\* PUT /:id/decision: `await Scholarship.findById` and the funds guard.
DecideRead(r) ==
  /\ reqs[r].pc = "loaded"
  /\ UNCHANGED <<wsVars, dbVars>>
  /\ LET sch == scholarships[reqs[r].doc[1].scholarship] IN
     IF FundsGuardFails(sch)
     THEN /\ reqs' = [reqs EXCEPT ![r].pc = "done"]
          /\ resp' = ReplyTo("decision", 400, "Insufficient funds", reqs[r].id)
     ELSE /\ reqs' = [reqs EXCEPT ![r] =
               [@ EXCEPT !.pc = "guarded", !.read = Append(@, sch)]]
          /\ UNCHANGED resp

\* PUT /:id/decision: scholarship.fundsRaised += scholarship.amount; await
\* scholarship.save().  The value written is computed from the document read.
DecideSaveScholarship(r, saveOK) ==
  /\ reqs[r].pc = "guarded"
  /\ UNCHANGED <<wsVars, donations, ledgerApplied, refundCalls, applications,
                 students>>
  /\ LET sid == reqs[r].doc[1].scholarship
         sch == reqs[r].read[2]
     IN
     IF ~saveOK
     THEN /\ reqs' = [reqs EXCEPT ![r].pc = "done"]
          /\ resp' = ReplyTo("decision", 500, "Server error", reqs[r].id)
          /\ UNCHANGED scholarships
     ELSE /\ scholarships' = [scholarships EXCEPT
               ![sid].fundsRaised = sch.fundsRaised + sch.amount]
          /\ reqs' = [reqs EXCEPT ![r].pc = "funded"]
          /\ UNCHANGED resp

\* PUT /:id/decision: await application.save() and the response.  save()
\* writes the modified paths: status, adminNotes, decidedBy and, when the status
\* was modified, the statusHistory pre('save') rebuilt.
DecideSaveApplication(r, saveOK) ==
  /\ reqs[r].pc = "funded"
  /\ UNCHANGED <<wsVars, scholarships, donations, ledgerApplied, refundCalls,
                 students>>
  /\ LET aid == reqs[r].id
         doc == reqs[r].doc[1]
         loaded == reqs[r].read[1]
         modified == doc.status # loaded.status
         saved == PreSaveApplication(doc, doc.statusHistory, modified)
     IN
     IF ~saveOK
     THEN /\ resp' = ReplyTo("decision", 500, "Server error", aid)
          /\ UNCHANGED applications
     ELSE /\ applications' = [applications EXCEPT ![aid] =
               [@ EXCEPT !.status = saved.status,
                         !.adminNotes = saved.adminNotes,
                         !.decidedBy = saved.decidedBy,
                         !.statusHistory =
                            IF modified THEN saved.statusHistory ELSE @]]
          /\ resp' = ReplyTo("decision", 200, doc.status, aid)
  /\ reqs' = [reqs EXCEPT ![r].pc = "done"]

NextDecide ==
  \/ \E st \in SoleApplicant, s \in Scholarships : Submit(st, s, TRUE)
  \/ \E r \in Requests, a \in 0 .. 1, d \in {"approved", "rejected", ""},
        ad \in Admins, n \in AdminNotesIn : DecideBegin(r, a, d, ad, n)
  \/ \E r \in Requests : DecideRead(r)
  \/ \E r \in Requests, ok \in BOOLEAN : DecideSaveScholarship(r, ok)
  \/ \E r \in Requests, ok \in BOOLEAN : DecideSaveApplication(r, ok)
  \/ \E r \in Requests : Recycle(r)

SpecDecide == Init /\ [][NextDecide]_vars

\* ------------------------------------------------------------------ delete, await by await
\* A removed scholarship: its id finds no document.  The id stays in the
\* domain of scholarships with the status "deleted", which no schema value has.
Removed(sch) == sch.status = "deleted"

\* DELETE /api/scholarships/:id: `await Scholarship.findById(req.params.id)`.
DeleteFind(r, sid) ==
  /\ reqs[r].pc = "idle"
  /\ UNCHANGED <<wsVars, dbVars>>
  /\ IF Removed(scholarships[sid])
     THEN /\ reqs' = [reqs EXCEPT ![r].pc = "done"]
          /\ resp' = Reply("delete", 404, "Scholarship not found")
     ELSE /\ reqs' = [reqs EXCEPT ![r] =
               [pc |-> "found", doc |-> <<[scholarship |-> sid]>>, id |-> 0,
                read |-> <<scholarships[sid]>>, session |-> "none"]]
          /\ UNCHANGED resp

\* Application.countDocuments({scholarship}) over the stored applications.
ApplicationCount(sid) ==
  Cardinality({a \in ApplicationIds : applications[a].scholarship = sid})

\* DELETE /api/scholarships/:id: `await Application.countDocuments(...)` and
\* the answer 400 when there are applications.
DeleteCount(r) ==
  /\ reqs[r].pc = "found"
  /\ UNCHANGED <<wsVars, dbVars>>
  /\ IF ApplicationCount(reqs[r].doc[1].scholarship) > 0
     THEN /\ reqs' = [reqs EXCEPT ![r].pc = "done"]
          /\ resp' = Reply("delete", 400,
                           "Cannot delete scholarship with existing applications")
     ELSE /\ reqs' = [reqs EXCEPT ![r].pc = "counted"]
          /\ UNCHANGED resp

\* DELETE /api/scholarships/:id: `await scholarship.remove()` and the answer.
\* removeOK = FALSE: the call throws (the database fails, or the installed
\* Mongoose has no Document.prototype.remove) and the catch answers 500.
DeleteRemove(r, removeOK) ==
  /\ reqs[r].pc = "counted"
  /\ UNCHANGED <<wsVars, donations, ledgerApplied, refundCalls, applications,
                 students>>
  /\ reqs' = [reqs EXCEPT ![r].pc = "done"]
  /\ IF removeOK
     THEN /\ scholarships' =
               [scholarships EXCEPT ![reqs[r].doc[1].scholarship].status = "deleted"]
          /\ resp' = Reply("delete", 200, "Scholarship deleted")
     ELSE /\ UNCHANGED scholarships
          /\ resp' = Reply("delete", 500, "Server error")

\* Submissions and deletions in flight.
NextDelete ==
  \/ \E r \in Requests, st \in Students, sid \in Scholarships :
        SubmitBegin(r, st, sid, TRUE)
  \/ \E r \in Requests : SubmitCommit(r)
  \/ \E r \in Requests, sid \in Scholarships : DeleteFind(r, sid)
  \/ \E r \in Requests : DeleteCount(r)
  \/ \E r \in Requests, ok \in BOOLEAN : DeleteRemove(r, ok)
  \/ \E r \in Requests : Recycle(r)

SpecDelete == Init /\ [][NextDelete]_vars

\* ------------------------------------------------------------------ review, await by await
ReviewStatusesIn == {"under_review", "approved", "pending"}
StudentSockets == {1}
StudentTokens == {"st1"}

\* PUT /:id/review up to `await Application.findById(id).session(session)`:
\* startTransaction, the status check, the read and the three guards on it.
ReviewBegin(r, aid, status, reviewer, notes) ==
  /\ reqs[r].pc = "idle"
  /\ UNCHANGED <<wsVars, dbVars>>
  /\ LET done(code, msg, session) ==
           /\ reqs' = [reqs EXCEPT ![r] =
                [@ EXCEPT !.pc = "done", !.session = session]]
           /\ resp' = ReplyTo("review", code, msg, aid)
     IN
     IF status \notin ReviewStatuses
     THEN done(400, "Invalid status", "open")
     ELSE IF aid \notin ApplicationIds
     THEN done(404, "Application not found", "aborted")
     ELSE IF scholarships[applications[aid].scholarship].status # "active"
     THEN done(400, "Scholarship is no longer active", "aborted")
     ELSE IF ReviewLocked(applications[aid])
     THEN done(400, "already decided", "aborted")
     ELSE /\ Len(applications[aid].statusHistory) < MaxHistory
          /\ reqs' = [reqs EXCEPT ![r] =
               [pc |-> "read",
                doc |-> <<[status |-> status, reviewer |-> reviewer,
                           notes |-> notes]>>,
                id |-> aid, read |-> <<applications[aid]>>,
                session |-> "open"]]
          /\ UNCHANGED resp

\* The slot of a review that has answered after commitTransaction ("done")
\* or after the catch block's abortTransaction ("aborted"), each followed by
\* endSession: only what happened to its notifications (none, when it sent
\* none) is kept.
ReviewEnded(r, pc, outcome) ==
  [pc |-> pc, doc |-> outcome, id |-> reqs[r].id, read |-> <<>>,
   session |-> IF pc = "done" THEN "committed" ELSE "aborted"]

\* The transaction's write of an application meets a write made since its
\* snapshot or held by another open transaction.
ReviewConflict(r) ==
  \/ applications[reqs[r].id] # reqs[r].read[1]
  \/ \E q \in Requests \ {r} :
        reqs[q].pc \in {"written", "notified"} /\ reqs[q].id = reqs[r].id

\* PUT /:id/review: findByIdAndUpdate, Student.findById and student.save, all
\* in the session; the writes stay in the transaction.  An error goes to the
\* catch: abortTransaction and 500.
ReviewWrite(r, saveOK) ==
  /\ reqs[r].pc = "read"
  /\ UNCHANGED <<wsVars, dbVars>>
  /\ IF ReviewConflict(r) \/ ~saveOK
     THEN /\ reqs' = [reqs EXCEPT ![r] = ReviewEnded(r, "aborted", <<>>)]
          /\ resp' = ReplyTo("review", 500, "Failed to update application status",
                             reqs[r].id)
     ELSE LET u == reqs[r].doc[1]
              updatedApp ==
                [reqs[r].read[1] EXCEPT
                   !.status = u.status,
                   !.reviewedBy = u.reviewer,
                   !.reviewerNotes = IF u.notes # "" THEN u.notes ELSE @,
                   !.statusHistory = Append(@,
                      [status |-> u.status, changedBy |-> u.reviewer,
                       notes |-> u.notes])]
          IN
          /\ reqs' = [reqs EXCEPT ![r] =
               [@ EXCEPT !.pc = "written", !.doc = <<updatedApp>>]]
          /\ UNCHANGED resp

\* PUT /:id/review: the email block and the WebSocket block, before
\* commitTransaction.  notifyApplicationStatusUpdate sends at once to the
\* sockets open now.
ReviewNotify(r, emailOK, wsOK) ==
  /\ reqs[r].pc = "written"
  /\ UNCHANGED <<dbVars, conns, clients>>
  /\ wsCall' = NotifyCall
  /\ sent' = IF wsOK
             THEN NotifySent(reqs[r].id, reqs[r].doc[1].student,
                             reqs[r].doc[1].status)
             ELSE NothingSent
  /\ IF NotifyOutcome(emailOK, wsOK) = "continue"
     THEN /\ reqs' = [reqs EXCEPT ![r] =
               [@ EXCEPT !.pc = "notified",
                         !.doc = <<reqs[r].doc[1],
                                   [emailOK |-> emailOK, wsOK |-> wsOK]>>]]
          /\ UNCHANGED resp
     ELSE /\ reqs' = [reqs EXCEPT ![r] =
               ReviewEnded(r, "aborted", <<[emailOK |-> emailOK, wsOK |-> wsOK]>>)]
          /\ resp' = ReplyTo("review", 500, "Failed to update application status",
                             reqs[r].id)

\* PUT /:id/review: `await session.commitTransaction()` and the answer; a
\* commit that fails goes to the catch and nothing of the transaction is
\* stored.
ReviewCommit(r, commitOK) ==
  /\ reqs[r].pc = "notified"
  /\ UNCHANGED <<wsVars, scholarships, donations, ledgerApplied, refundCalls,
                 students>>
  /\ IF commitOK
     THEN /\ applications' = [applications EXCEPT ![reqs[r].id] = reqs[r].doc[1]]
          /\ reqs' = [reqs EXCEPT ![r] = ReviewEnded(r, "done", <<reqs[r].doc[2]>>)]
          /\ resp' = ReplyTo("review", 200, reqs[r].doc[1].status, reqs[r].id)
     ELSE /\ UNCHANGED applications
          /\ reqs' = [reqs EXCEPT ![r] =
               ReviewEnded(r, "aborted", <<reqs[r].doc[2]>>)]
          /\ resp' = ReplyTo("review", 500, "Failed to update application status",
                             reqs[r].id)

\* Creations and reviews in flight while the student's socket connects and
\* authenticates.
NextReview ==
  \/ \E r \in Requests, st \in SoleApplicant, sid \in Scholarships :
        SubmitBegin(r, st, sid, TRUE)
  \/ \E r \in Requests : SubmitCommit(r)
  \/ \E r \in Requests, st \in ReviewStatusesIn, rv \in Reviewers,
        n \in ReviewerNotesIn : ReviewBegin(r, 1, st, rv, n)
  \/ \E r \in Requests, ok \in BOOLEAN : ReviewWrite(r, ok)
  \/ \E r \in Requests, e \in BOOLEAN, w \in BOOLEAN : ReviewNotify(r, e, w)
  \/ \E r \in Requests, ok \in BOOLEAN : ReviewCommit(r, ok)
  \/ \E r \in Requests : Recycle(r)
  \/ \E c \in StudentSockets : Connect(c)
  \/ \E c \in StudentSockets, t \in StudentTokens : Authenticate(c, t)

SpecReview == Init /\ [][NextReview]_vars

\* Creations and reviews in flight with no socket connected: the requests'
\* own steps alone, the notification blocks failing or not.
NextTolerate ==
  \/ \E r \in Requests, st \in SoleApplicant, sid \in Scholarships :
        SubmitBegin(r, st, sid, TRUE)
  \/ \E r \in Requests : SubmitCommit(r)
  \/ \E r \in Requests, st \in ReviewStatusesIn, rv \in Reviewers,
        n \in ReviewerNotesIn : ReviewBegin(r, 1, st, rv, n)
  \/ \E r \in Requests, ok \in BOOLEAN : ReviewWrite(r, ok)
  \/ \E r \in Requests, e \in BOOLEAN, w \in BOOLEAN : ReviewNotify(r, e, w)
  \/ \E r \in Requests, ok \in BOOLEAN : ReviewCommit(r, ok)
  \/ \E r \in Requests : Recycle(r)

SpecTolerate == Init /\ [][NextTolerate]_vars

\* ------------------------------------------------------------------ properties
CompletedTo(s) ==
  {i \in DonationIds : donations[i].scholarship = s
                       /\ donations[i].paymentStatus = "completed"}

SumCompleted(s) ==
  LET RECURSIVE S(_)
      S(i) == IF i = 0 THEN 0
              ELSE (IF i \in CompletedTo(s) THEN donations[i].amount ELSE 0)
                   + S(i - 1)
  IN S(Len(donations))

CompletedDonors(s) == {donations[i].donor : i \in CompletedTo(s)}

\* C1: once every donation request in flight has finished, fundsRaised(S) is
\* the sum of the amounts of the completed donations saved to S and
\* donationCount(S) is their number, however the requests interleaved.
C1_LedgerConsistency ==
  Quiescent =>
    \A s \in Scholarships :
      /\ scholarships[s].fundsRaised = SumCompleted(s)
      /\ scholarships[s].donationCount = Cardinality(CompletedTo(s))

\* Two donations to the same scholarship whose hooks both read it before
\* either wrote, both finished.
C1_Witness ==
  \E r1, r2 \in Requests :
    /\ r1 # r2
    /\ reqs[r1].pc = "done" /\ reqs[r2].pc = "done"
    /\ reqs[r1].id > 0 /\ reqs[r2].id > 0
    /\ reqs[r1].doc[1].scholarship = "s1" /\ reqs[r2].doc[1].scholarship = "s1"
    /\ reqs[r1].read # <<>> /\ reqs[r1].read = reqs[r2].read
    /\ scholarships["s1"].donationCount >= 2

\* C2: in every state, fundsRaised(S) is the sum of the amounts of the
\* completed donations to S.
C2_FundsRaisedIsCompletedSum ==
  \A s \in Scholarships : scholarships[s].fundsRaised = SumCompleted(s)

\* C3: the ledger counters are incremented at most once per donation, a
\* repeated capture of the same donation included.
C3_AppliedOncePerDonation ==
  \A d \in DonationIds : ledgerApplied[d] <= 1

\* C4: once an application is approved or rejected, no step changes its
\* status or its statusHistory.
C4_TerminalLock ==
  [][\A a \in ApplicationIds :
       applications[a].status \in {"approved", "rejected"} =>
         /\ applications'[a].status = applications[a].status
         /\ applications'[a].statusHistory = applications[a].statusHistory]_vars

\* C5: an approval through PUT /:id/decision answers 400 Insufficient funds
\* and changes neither the application nor the scholarship when
\* fundsRaised + amount > totalFunds; otherwise it answers 200, the application
\* is approved and fundsRaised has grown by the award amount.
C5_FundsGuard ==
  [][(resp'.op = "decision" /\ resp'.msg \in {"approved", "Insufficient funds"}) =>
       LET a == resp'.id
           sid == applications[a].scholarship
           sch == scholarships[sid]
       IN
       IF sch.fundsRaised + sch.amount > sch.totalFunds
       THEN /\ resp'.code = 400
            /\ resp'.msg = "Insufficient funds"
            /\ applications' = applications
            /\ scholarships' = scholarships
       ELSE /\ resp'.code = 200
            /\ applications'[a].status = "approved"
            /\ scholarships'[sid].fundsRaised = sch.fundsRaised + sch.amount
            /\ scholarships'[sid].fundsRaised <= sch.totalFunds]_vars

\* An approval refused for lack of funds after an earlier one went through.
C5_Witness ==
  /\ resp.op = "decision" /\ resp.code = 400 /\ resp.msg = "Insufficient funds"
  /\ \E a \in ApplicationIds :
       /\ applications[a].status = "approved"
       /\ applications[a].decidedBy # None
       /\ a # resp.id

\* C6: the approved applications of a scholarship never commit more than its
\* totalFunds: (number approved) x (award amount) <= totalFunds.
C6_CommitmentsWithinFunds ==
  \A s \in Scholarships :
    Cardinality({a \in ApplicationIds :
                   applications[a].scholarship = s
                   /\ applications[a].status = "approved"})
      * scholarships[s].amount <= scholarships[s].totalFunds

IsPrefix(h, g) ==
  Len(h) <= Len(g) /\ \A i \in 1 .. Len(h) : g[i] = h[i]

\* C7: every step leaves each statusHistory a prefix of its new value, and
\* the last entry of a statusHistory carries the application's status.
C7_HistoryAppendOnly ==
  [][\A a \in 1 .. Len(applications') :
       LET h == applications'[a].statusHistory IN
       /\ a \in ApplicationIds => IsPrefix(applications[a].statusHistory, h)
       /\ h # <<>>
       /\ h[Len(h)].status = applications'[a].status]_vars

SamePair(x, y) == x.student = y.student /\ x.scholarship = y.scholarship

\* C8: no two applications share (student, scholarship), however submissions
\* interleave; and a submission that arrives for a pair already on file is
\* answered 400 ("You have already applied", unless the request lacks a field
\* or the scholarship is closed) and writes nothing.
C8_OneApplicationPerPair ==
  [][/\ \A i, j \in 1 .. Len(applications') :
          i # j => ~SamePair(applications'[i], applications'[j])
     /\ \A r \in Requests :
          (/\ reqs[r].pc = "idle"
           /\ reqs'[r].pc # "idle"
           /\ \E i \in ApplicationIds : SamePair(applications[i], reqs'[r].doc[1]))
          => /\ reqs'[r].pc = "done"
             /\ resp'.op = "submit" /\ resp'.code = 400
             /\ (resp'.msg # "You have already applied" =>
                   resp'.msg \in {"Please provide scholarshipId and essay",
                                  "Scholarship not found, inactive"})
             /\ (scholarships[reqs'[r].doc[1].scholarship].status # "active" =>
                   resp'.msg # "You have already applied")
             /\ applications' = applications
             /\ students' = students
             /\ scholarships' = scholarships]_vars

\* Two submissions of one pair that both passed the check: one stored, the
\* other refused at its insert (the last response, a 500); the reference
\* lists hold the one id.
C8_Witness ==
  \E r1, r2 \in Requests :
    /\ r1 # r2
    /\ reqs[r1].pc = "done" /\ reqs[r2].pc = "done"
    /\ SamePair(reqs[r1].doc[1], reqs[r2].doc[1])
    /\ reqs[r1].id > 0
    /\ reqs[r2].id = 0 /\ reqs[r2].read # <<>>
    /\ resp.code = 500
    /\ Len(applications) = 1
    /\ Len(students[reqs[r1].doc[1].student].applications) = 1

\* C9: once every donation request in flight has finished, donorCount(S) is
\* the number of distinct donors with a completed donation to S and donors(S)
\* lists each of them exactly once.
C9_DonorDedup ==
  Quiescent =>
    \A s \in Scholarships :
      /\ scholarships[s].donorCount = Cardinality(CompletedDonors(s))
      /\ Len(scholarships[s].donors) = Cardinality(CompletedDonors(s))
      /\ {scholarships[s].donors[i] : i \in 1 .. Len(scholarships[s].donors)}
           = CompletedDonors(s)

\* C10: a refund answers 200 only for a donation that was completed, and then
\* the donation is refunded; for a donation in another status it answers 400,
\* the payment service's refund is not called and no donation changes.
C10_RefundOnlyCompleted ==
  [][resp'.op = "refund" =>
       LET d == resp'.id IN
       IF d \notin DonationIds
       THEN resp'.code = 404 /\ refundCalls' = refundCalls /\ donations' = donations
       ELSE IF donations[d].paymentStatus = "completed"
       THEN /\ refundCalls' = refundCalls + 1
            /\ resp'.code \in {200, 400}
            /\ resp'.code = 200 =>
                 donations' = [donations EXCEPT ![d].paymentStatus = "refunded"]
            /\ resp'.code = 400 => donations' = donations
       ELSE /\ resp'.code = 400
            /\ refundCalls' = refundCalls
            /\ donations' = donations]_vars

\* A refund refused for a donation that an earlier refund had refunded.
C10_Witness ==
  /\ resp.op = "refund" /\ resp.code = 400
  /\ resp.id \in DonationIds
  /\ donations[resp.id].paymentStatus = "refunded"
  /\ refundCalls = 1

\* Whether donor has a completed donation to s other than donation d.
OtherCompleted(s, donor, d) ==
  \E i \in CompletedTo(s) : i # d /\ donations[i].donor = donor

\* C11: a successful refund of a completed donation of amount a to S takes a
\* off fundsRaised(S) and amountFunded(S) and 1 off donationCount(S), and
\* removes the donor from donors(S), with donorCount, only when the donor has
\* no other completed donation to S.
C11_RefundReversesLedger ==
  [][(resp'.op = "refund" /\ resp'.code = 200
      /\ donations[resp'.id].scholarship # None) =>
       LET d == resp'.id
           doc == donations[d]
           s == doc.scholarship
           old == scholarships[s]
           new == scholarships'[s]
           keep == OtherCompleted(s, doc.donor, d)
       IN
       /\ new.fundsRaised = old.fundsRaised - doc.amount
       /\ new.amountFunded = old.amountFunded - doc.amount
       /\ new.donationCount = old.donationCount - 1
       /\ new.donorCount = IF keep THEN old.donorCount ELSE old.donorCount - 1
       /\ (\E i \in 1 .. Len(new.donors) : new.donors[i] = doc.donor) <=> keep]_vars

ApprovedOf(s) ==
  {a \in ApplicationIds : applications[a].scholarship = s
                          /\ applications[a].status = "approved"}

\* C12: a transition commits all its records or none: the funds a scholarship
\* has committed to approvals never exceed what its approved applications
\* account for, so no state shows the funds counter raised for an approval
\* whose application is not approved.
C12_TransitionAllOrNothing ==
  \A s \in Scholarships :
    scholarships[s].fundsRaised
      <= Cardinality(ApprovedOf(s)) * scholarships[s].amount

Listed(seq) == {seq[i] : i \in 1 .. Len(seq)}

\* C13: an application is stored exactly when its id is in the applications
\* list of its student and of its scholarship, each once; a submission whose
\* write fails leaves no record and no list entry.
C13_CreationAtomic ==
  /\ \A a \in ApplicationIds :
       /\ a \in Listed(students[applications[a].student].applications)
       /\ a \in Listed(scholarships[applications[a].scholarship].applications)
  /\ \A st \in Students :
       /\ \A a \in Listed(students[st].applications) :
            a \in ApplicationIds /\ applications[a].student = st
       /\ Len(students[st].applications)
            = Cardinality(Listed(students[st].applications))
  /\ \A s \in Scholarships :
       /\ \A a \in Listed(scholarships[s].applications) :
            a \in ApplicationIds /\ applications[a].scholarship = s
       /\ Len(scholarships[s].applications)
            = Cardinality(Listed(scholarships[s].applications))

\* One submission stored with both list entries while another, whose write
\* failed, was aborted with a 500.
C13_Witness ==
  /\ \E r \in Requests : reqs[r].pc = "aborted"
  /\ resp.op = "submit" /\ resp.code = 500
  /\ Len(applications) = 1
  /\ Listed(students[applications[1].student].applications) = {1}
  /\ Listed(scholarships[applications[1].scholarship].applications) = {1}


\* The status events about applications.
StatusEventTypes == {"application_status_update", "application_reviewed"}

\* C14: with no transaction open, every status event a socket was sent tells
\* of a change that is stored: the application's history holds the status the
\* event announces.
C14_EventAfterCommit ==
  Quiescent =>
    \A c \in Connections : \A i \in DOMAIN sent[c] :
      sent[c][i].type \in StatusEventTypes =>
        /\ sent[c][i].aid \in ApplicationIds
        /\ \E h \in DOMAIN applications[sent[c][i].aid].statusHistory :
             applications[sent[c][i].aid].statusHistory[h].status
               = sent[c][i].status

\* C15: a failure of the email or of the WebSocket notification never ends a
\* request: after the notification blocks of a review the handler is at its
\* commit with nothing answered and nothing stored yet, a review whose commit
\* goes through answers 200 with the application stored as written, and a
\* creation (whose notification blocks always fail) that meets no conflict
\* answers 201 with the application stored.
C15_NotifyFailureTolerated ==
  [][\A r \in Requests :
       /\ (reqs[r].pc = "written" /\ reqs'[r] # reqs[r])
          => /\ reqs'[r].pc = "notified"
             /\ resp' = resp
             /\ applications' = applications
       /\ (reqs[r].pc = "notified" /\ reqs'[r].pc = "done")
          => /\ resp'.code = 200
             /\ applications'[reqs[r].id] = reqs[r].doc[1]
       /\ (/\ reqs[r].pc = "checked" /\ reqs'[r].pc = "done"
           /\ UniqueIndexOK(applications, reqs[r].doc[1].student,
                            reqs[r].doc[1].scholarship)
           /\ ~WriteConflict(reqs[r].read[1], reqs[r].doc[1].student,
                             reqs[r].doc[1].scholarship))
          => /\ resp'.code = 201
             /\ Len(applications') = Len(applications) + 1]_vars

\* A review whose email and WebSocket notification both failed has committed
\* and answered 200: the application has the reviewed status.
C15_Witness ==
  \E r \in Requests :
    /\ reqs[r].pc = "done"
    /\ reqs[r].doc = <<[emailOK |-> FALSE, wsOK |-> FALSE]>>
    /\ resp.op = "review" /\ resp.code = 200 /\ resp.id = reqs[r].id
    /\ applications[reqs[r].id].status = resp.msg
    /\ Len(applications[reqs[r].id].statusHistory) = 2

\* The sockets the last handler or method sent something to.
ReachedByCall == {c \in Connections : sent[c] # <<>>}

\* The step is authenticateClient(c, u) on a socket not yet authenticated.
FirstAuthenticate(c, u) ==
  /\ wsCall'.op = "authenticate"
  /\ wsCall'.on = c
  /\ wsCall'.target = u
  /\ ~conns[c].authenticated

\* C16: the registry holds one connection per identity, a socket
\* authenticated as that identity; when a connection authenticates as an
\* identity whose registered connection is open, that connection is closed and
\* the identity's entry becomes the new connection, the other entries staying
\* as they were.
C16_RegisterEvicts ==
  /\ [](\A u \in Identities :
          clients[u] # 0 =>
            /\ conns[clients[u]].userId = u
            /\ conns[clients[u]].authenticated
            /\ InWss(clients[u]))
  /\ [][\A c \in Connections, u \in Identities :
          FirstAuthenticate(c, u) =>
            /\ clients'[u] = c
            /\ conns'[c].userId = u
            /\ \A v \in Identities \ {u} : clients'[v] = clients[v]
            /\ \A k \in Connections \ {c} :
                 (clients[u] = k /\ IsOpen(k)) =>
                    conns'[k].readyState = "closing"]_vars

\* A second connection has just authenticated as an identity and holds its
\* entry; the first, authenticated as the same identity, is closing.
C16_Witness ==
  \E c \in Connections, k \in Connections, u \in Identities :
    /\ c # k
    /\ wsCall.op = "authenticate" /\ wsCall.on = c /\ wsCall.target = u
    /\ clients[u] = c /\ IsOpen(c)
    /\ conns[k].userId = u /\ conns[k].readyState = "closing"
    /\ ~conns[k].destroyed

\* C17: an authenticate message on a connection that is already authenticated
\* is answered with the error 'Already authenticated' and changes no socket
\* and no registry entry; a connection keeps the identity it authenticated as
\* for as long as it lives.
C17_AuthenticateOnce ==
  [][\A c \in Connections :
       /\ (wsCall'.op = "authenticate" /\ wsCall'.on = c
           /\ conns[c].authenticated)
          => /\ conns' = conns
             /\ clients' = clients
             /\ IsOpen(c) =>
                  sent'[c] = <<Event("error", 0, "Already authenticated")>>
       /\ (conns[c].authenticated /\ InWss(c))
          => /\ conns'[c].authenticated
             /\ conns'[c].userId = conns[c].userId]_vars

\* An authenticated open connection has just been sent an authenticate
\* message with another identity's token and has been answered with the error.
C17_Witness ==
  \E c \in Connections :
    /\ wsCall.op = "authenticate" /\ wsCall.on = c
    /\ wsCall.target \in Identities \ {conns[c].userId}
    /\ conns[c].authenticated /\ IsOpen(c)
    /\ clients[conns[c].userId] = c
    /\ clients[wsCall.target] = 0
    /\ sent[c] = <<Event("error", 0, "Already authenticated")>>

C19_HeartbeatEvicts ==
  [][\A c \in Connections :
       /\ (wsCall'.op = "heartbeat" /\ InWss(c) /\ conns[c].pinged)
          => conns'[c].destroyed /\ conns'[c].readyState = "closing"
       /\ (wsCall'.op = "heartbeat" /\ IsOpen(c) /\ ~conns[c].pinged)
          => ~conns'[c].destroyed /\ IsOpen(c)'
       /\ (wsCall'.op = "close" /\ wsCall'.on = c /\ conns[c].userId # None)
          => clients'[conns[c].userId] = 0]_vars

\* A tick has just terminated an authenticated connection that is still in
\* the registry, and has pinged another that is open.
C19_Witness ==
  /\ wsCall.op = "heartbeat"
  /\ \E c \in Connections, k \in Connections :
       /\ conns[c].destroyed /\ conns[c].readyState = "closing"
       /\ conns[c].userId # None /\ clients[conns[c].userId] = c
       /\ IsOpen(k) /\ conns[k].pinged /\ conns[k].authenticated

\* C20: no connection receives the same event more than once from one call
\* of the service.
C20_AtMostOnce ==
  \A c \in Connections :
    \A i \in DOMAIN sent[c], j \in DOMAIN sent[c] :
      sent[c][i] = sent[c][j] => i = j


\* The events addressed to reviewers and admins.
StaffEventTypes == {"application_reviewed", "new_application"}

\* C21: an application_reviewed or new_application event is received only by
\* a connection authenticated as a reviewer or an admin.
C21_RoleTargeted ==
  \A c \in Connections : \A i \in DOMAIN sent[c] :
    sent[c][i].type \in StaffEventTypes =>
      /\ conns[c].authenticated
      /\ RoleOf(conns[c].userId) \in {"reviewer", "admin"}

\* The transition table: submitted to under_review, under_review to
\* shortlisted, and any status but approved and rejected to approved or
\* rejected.
InTable(from, to) ==
  \/ from = "submitted" /\ to = "under_review"
  \/ from = "under_review" /\ to \in {"shortlisted", "approved", "rejected"}
  \/ from \notin NoRevertStatuses /\ to \in {"approved", "rejected"}

\* C22: every change of an application's status is a transition of the table.
C22_OnlyTableTransitions ==
  [][\A a \in ApplicationIds :
       applications'[a].status # applications[a].status =>
         InTable(applications[a].status, applications'[a].status)]_vars

\* C23: a completed donation changes only by becoming refunded, and a refunded
\* or failed donation never becomes completed.
C23_CompletedImmutable ==
  [][\A d \in DonationIds :
       /\ donations[d].paymentStatus = "completed" =>
            \/ donations'[d] = donations[d]
            \/ donations'[d] = [donations[d] EXCEPT !.paymentStatus = "refunded"]
       /\ donations[d].paymentStatus \in {"refunded", "failed"} =>
            donations'[d].paymentStatus # "completed"]_vars

\* C24: no two donations have the same transaction id.
C24_TransactionIdOnce ==
  \A i \in DonationIds, j \in DonationIds :
    donations[i].transactionId = donations[j].transactionId => i = j

\* C25: the scholarship of every stored application exists.
C25_NoDanglingScholarship ==
  \A a \in ApplicationIds : ~Removed(scholarships[applications[a].scholarship])

\* C26: fundsRaised and amountFunded of every scholarship are equal.
C26_FundsRaisedIsAmountFunded ==
  \A s \in Scholarships : scholarships[s].fundsRaised = scholarships[s].amountFunded

\* The open registered sockets of reviewers and admins.
StaffSockets ==
  {c \in Connections :
     /\ IsOpen(c)
     /\ \E u \in Identities : clients[u] = c
     /\ RoleOf(conns[c].userId) \in {"reviewer", "admin"}}

\* C27: the step in which POST /api/applications stores an application and
\* answers 201 sends a new_application event to every open registered socket
\* of a reviewer or an admin.
C27_NewApplicationNotified ==
  [][(/\ resp'.op = "submit" /\ resp'.code = 201
      /\ Len(applications') = Len(applications) + 1)
     => \A c \in StaffSockets :
          \E i \in DOMAIN sent'[c] : sent'[c][i].type = "new_application"]_vars

\* C28: every open authenticated connection is the registry's entry for its
\* identity.
C28_OpenIsRegistered ==
  \A c \in Connections :
    (IsOpen(c) /\ conns[c].authenticated) => clients[conns[c].userId] = c

\* C29: a handler that has answered has committed or aborted the transaction
\* it started and ended its session; an answered request takes no further
\* step, so a transaction still open then is never ended by its handler.
C29_SessionEnded ==
  \A r \in Requests :
    reqs[r].pc \in {"done", "aborted"} => reqs[r].session # "open"

\* C30: the history entry appended by a decision that changes the status
\* names the admin who decided and carries the admin's notes.
C30_DecisionEntryActor ==
  [][\A a \in ApplicationIds :
       (/\ resp'.op = "decision" /\ resp'.code = 200 /\ resp'.id = a
        /\ applications'[a].status # applications[a].status)
       => LET h == applications'[a].statusHistory IN
          /\ h[Len(h)].changedBy = applications'[a].decidedBy
          /\ h[Len(h)].notes = OrElse(applications'[a].adminNotes, "Status updated")]_vars

====
